---- MODULE Spec2Model ----
(***************************************************************************)
(* Model of the rasterizer in GFX_FUNCTIONS.c (lines, circles, rectangles, *)
(* triangles, colour interpolation).  Every primitive is an operator that  *)
(* computes the sequence of pixel-sink writes the C code issues, with      *)
(* int16_t stores wrapped at 16 bits and C's truncating division.          *)
(***************************************************************************)
EXTENDS Integers, Sequences, FiniteSets

(* ------------------------------ bounds --------------------------------- *)
MaxCoord == 3
Coord == (-MaxCoord)..MaxCoord

MaxRadius == 6
Radius == (-1)..MaxRadius

MaxSize == 3
Size == (-MaxSize)..MaxSize

(* Rounded rectangles: two origins, sizes large enough for corner radii    *)
(* up to MaxRound / 2.                                                     *)
MaxRound == 8
RoundSize == (-1)..MaxRound
RoundOrigin == { <<0, 0>>, <<-2, 1>> }

(* Triangles: every vertex triple of a small grid, plus the two examples   *)
(* of the specification in each vertex order.                              *)
MaxTri == 3
TriCoord == 0..MaxTri

Perms3 == { <<1, 2, 3>>, <<1, 3, 2>>, <<2, 1, 3>>, <<2, 3, 1>>, <<3, 1, 2>>, <<3, 2, 1>> }

TriOf(p, q) == <<p[q[1]][1], p[q[1]][2], p[q[2]][1], p[q[2]][2], p[q[3]][1], p[q[3]][2]>>

Triangles ==
  [1..6 -> TriCoord]
    \cup { TriOf(<< <<0, 0>>, <<10, 0>>, <<5, 10>> >>, q) : q \in Perms3 }
    \cup { TriOf(<< <<0, 0>>, <<5, 0>>, <<10, 0>> >>, q) : q \in Perms3 }
    \cup { TriOf(<< <<-4, 7>>, <<9, -6>>, <<2, 3>> >>, q) : q \in Perms3 }

(* Colours: every combination of a few values per 5-6-5 channel.  t is     *)
(* given in quarters, tq = 4*t.                                             *)
Chan5 == {0, 21, 31}
Chan6 == {0, 42, 63}
Colors == { r * 2048 + g * 32 + b : r \in Chan5, g \in Chan6, b \in Chan5 }

MaxT == 8
TQuarters == (-MaxT)..MaxT

(* --------------------------- C arithmetic ------------------------------ *)
Int16(v) == ((v + 32768) % 65536) - 32768

Abs(v) == IF v < 0 THEN -v ELSE v

CDiv(a, b) ==
  IF (a < 0) = (b < 0) THEN Abs(a) \div Abs(b) ELSE -(Abs(a) \div Abs(b))

Max(a, b) == IF a > b THEN a ELSE b

Min(a, b) == IF a < b THEN a ELSE b

(* ------------------------------ writeLine ------------------------------ *)
Steep(x0, y0, x1, y1) == Abs(y1 - y0) > Abs(x1 - x0)

(* Faulty variant: the endpoints are never exchanged. *)
EndpointSwap_never(x0, x1) == FALSE

EndpointSwap(x0, x1) == x0 > x1

writeLineEntry(ax0, ay0, ax1, ay1) ==
  LET steep == Steep(ax0, ay0, ax1, ay1)
      tx0 == IF steep THEN ay0 ELSE ax0
      ty0 == IF steep THEN ax0 ELSE ay0
      tx1 == IF steep THEN ay1 ELSE ax1
      ty1 == IF steep THEN ax1 ELSE ay1
      sw  == EndpointSwap(tx0, tx1)
      x0  == IF sw THEN tx1 ELSE tx0
      y0  == IF sw THEN ty1 ELSE ty0
      x1  == IF sw THEN tx0 ELSE tx1
      y1  == IF sw THEN ty0 ELSE ty1
      dx  == Int16(x1 - x0)
  IN  [steep |-> steep, x0 |-> x0, y0 |-> y0, x1 |-> x1, y1 |-> y1,
       dx |-> dx, dy |-> Int16(Abs(y1 - y0)), err |-> Int16(CDiv(dx, 2)),
       ystep |-> IF y0 < y1 THEN 1 ELSE -1]

(* Faulty variant: the loop stops one position short of x1. *)
writeLineCond_short(f) == f.x0 < f.x1

writeLineCond(f) == f.x0 <= f.x1

writeLinePixel(f) == IF f.steep THEN <<f.y0, f.x0>> ELSE <<f.x0, f.y0>>

(* Faulty variant: the accumulator is not replenished after a minor-axis step. *)
writeLineBody_norefill(f) ==
  LET e == Int16(f.err - f.dy)
  IN  [f EXCEPT !.x0  = Int16(f.x0 + 1),
                !.y0  = IF e < 0 THEN Int16(f.y0 + f.ystep) ELSE f.y0,
                !.err = e]

writeLineBody(f) ==
  LET e == Int16(f.err - f.dy)
  IN  [f EXCEPT !.x0  = Int16(f.x0 + 1),
                !.y0  = IF e < 0 THEN Int16(f.y0 + f.ystep) ELSE f.y0,
                !.err = IF e < 0 THEN Int16(e + f.dx) ELSE e]

RECURSIVE writeLineLoop(_)
writeLineLoop(f) ==
  IF writeLineCond(f)
    THEN <<writeLinePixel(f)>> \o writeLineLoop(writeLineBody(f))
    ELSE <<>>

writeLine(x0, y0, x1, y1) ==
  writeLineLoop(writeLineEntry(Int16(x0), Int16(y0), Int16(x1), Int16(y1)))

(* The writeLine call <<x0, y0, x1, y1>> a fast line makes. *)
drawFastVLineCall(x, y, h) ==
  <<Int16(x), Int16(y), Int16(x), Int16(Int16(y) + Int16(h) - 1)>>

drawFastHLineCall(x, y, w) ==
  <<Int16(x), Int16(y), Int16(Int16(x) + Int16(w) - 1), Int16(y)>>

drawFastVLine(x, y, h) ==
  LET c == drawFastVLineCall(x, y, h) IN writeLine(c[1], c[2], c[3], c[4])

drawFastHLine(x, y, w) ==
  LET c == drawFastHLineCall(x, y, w) IN writeLine(c[1], c[2], c[3], c[4])

(* The writeLine call drawLine ends in, through one of its three branches. *)
drawLineCall(x0, y0, x1, y1) ==
  IF x0 = x1
    THEN drawFastVLineCall(x0, Min(y0, y1), Max(y0, y1) - Min(y0, y1) + 1)
    ELSE IF y0 = y1
      THEN drawFastHLineCall(Min(x0, x1), y0, Max(x0, x1) - Min(x0, x1) + 1)
      ELSE <<x0, y0, x1, y1>>

drawLine(x0, y0, x1, y1) ==
  LET c == drawLineCall(Int16(x0), Int16(y0), Int16(x1), Int16(y1))
  IN  writeLine(c[1], c[2], c[3], c[4])

(* Concatenation of the pixel writes of a sequence of line calls. *)
RECURSIVE Flatten(_)
Flatten(ss) == IF ss = <<>> THEN <<>> ELSE Head(ss) \o Flatten(Tail(ss))

(* ------------------------------ drawCircle ----------------------------- *)
circleEntry(r) ==
  [f |-> Int16(1 - r), ddF_x |-> 1, ddF_y |-> Int16(-2 * r), x |-> 0, y |-> r]

circleCond(c) == c.x < c.y

circleStep(c) ==
  LET dec  == c.f >= 0
      y    == IF dec THEN Int16(c.y - 1) ELSE c.y
      ddFy == IF dec THEN Int16(c.ddF_y + 2) ELSE c.ddF_y
      f1   == IF dec THEN Int16(c.f + ddFy) ELSE c.f
      ddFx == Int16(c.ddF_x + 2)
  IN  [f |-> Int16(f1 + ddFx), ddF_x |-> ddFx, ddF_y |-> ddFy,
       x |-> Int16(c.x + 1), y |-> y]

writePixel(x, y) == <<Int16(x), Int16(y)>>

circleAxisPoints(x0, y0, r) ==
  << writePixel(x0, y0 + r), writePixel(x0, y0 - r),
     writePixel(x0 + r, y0), writePixel(x0 - r, y0) >>

(* Faulty variant: the last octant repeats the sixth instead of mirroring it. *)
circleOctants_dup(x0, y0, c) ==
  << writePixel(x0 + c.x, y0 + c.y), writePixel(x0 - c.x, y0 + c.y),
     writePixel(x0 + c.x, y0 - c.y), writePixel(x0 - c.x, y0 - c.y),
     writePixel(x0 + c.y, y0 + c.x), writePixel(x0 - c.y, y0 + c.x),
     writePixel(x0 + c.y, y0 - c.x), writePixel(x0 - c.y, y0 + c.x) >>

circleOctants(x0, y0, c) ==
  << writePixel(x0 + c.x, y0 + c.y), writePixel(x0 - c.x, y0 + c.y),
     writePixel(x0 + c.x, y0 - c.y), writePixel(x0 - c.x, y0 - c.y),
     writePixel(x0 + c.y, y0 + c.x), writePixel(x0 - c.y, y0 + c.x),
     writePixel(x0 + c.y, y0 - c.x), writePixel(x0 - c.y, y0 - c.x) >>

RECURSIVE drawCircleLoop(_, _, _)
drawCircleLoop(x0, y0, c) ==
  IF circleCond(c)
    THEN LET n == circleStep(c)
         IN  circleOctants(x0, y0, n) \o drawCircleLoop(x0, y0, n)
    ELSE <<>>

drawCircle(x0, y0, r) ==
  circleAxisPoints(x0, y0, r) \o drawCircleLoop(x0, y0, circleEntry(r))

(* ------------------------------ fillCircle ----------------------------- *)
(* A vertical span handed to drawFastVLine; kind tells which statement of  *)
(* the code issued it.                                                     *)
VSpan(x, y, h, kind) ==
  [x |-> Int16(x), y |-> Int16(y), h |-> Int16(h), kind |-> kind]

helperEntry(r) == [c |-> circleEntry(r), px |-> 0, py |-> r]

helperCond(h) == circleCond(h.c)

Bit(corners, b) == (corners \div b) % 2 = 1

(* The spans of one iteration; h is the frame at the top of the iteration  *)
(* and delta the value after delta++.                                      *)
(* Faulty variant: the x spans are drawn without the x < y + 1 test. *)
helperSpans_nocheck(x0, y0, h, corners, delta) ==
  LET n  == circleStep(h.c)
      s1 == IF Bit(corners, 1)
              THEN <<VSpan(x0 + n.x, y0 - n.y, 2 * n.y + delta, "x")>>
              ELSE <<>>
      s2 == IF Bit(corners, 2)
              THEN <<VSpan(x0 - n.x, y0 - n.y, 2 * n.y + delta, "x")>>
              ELSE <<>>
      s3 == IF n.y # h.py /\ Bit(corners, 1)
              THEN <<VSpan(x0 + h.py, y0 - h.px, 2 * h.px + delta, "py")>>
              ELSE <<>>
      s4 == IF n.y # h.py /\ Bit(corners, 2)
              THEN <<VSpan(x0 - h.py, y0 - h.px, 2 * h.px + delta, "py")>>
              ELSE <<>>
  IN  s1 \o s2 \o s3 \o s4

helperSpans(x0, y0, h, corners, delta) ==
  LET n  == circleStep(h.c)
      s1 == IF n.x < n.y + 1 /\ Bit(corners, 1)
              THEN <<VSpan(x0 + n.x, y0 - n.y, 2 * n.y + delta, "x")>>
              ELSE <<>>
      s2 == IF n.x < n.y + 1 /\ Bit(corners, 2)
              THEN <<VSpan(x0 - n.x, y0 - n.y, 2 * n.y + delta, "x")>>
              ELSE <<>>
      s3 == IF n.y # h.py /\ Bit(corners, 1)
              THEN <<VSpan(x0 + h.py, y0 - h.px, 2 * h.px + delta, "py")>>
              ELSE <<>>
      s4 == IF n.y # h.py /\ Bit(corners, 2)
              THEN <<VSpan(x0 - h.py, y0 - h.px, 2 * h.px + delta, "py")>>
              ELSE <<>>
  IN  s1 \o s2 \o s3 \o s4

helperBody(h) ==
  LET n == circleStep(h.c)
  IN  [c |-> n, px |-> n.x, py |-> IF n.y # h.py THEN n.y ELSE h.py]

RECURSIVE helperLoop(_, _, _, _, _)
helperLoop(x0, y0, h, corners, delta) ==
  IF helperCond(h)
    THEN helperSpans(x0, y0, h, corners, delta)
           \o helperLoop(x0, y0, helperBody(h), corners, delta)
    ELSE <<>>

fillCircleHelper(x0, y0, r, corners, delta) ==
  helperLoop(x0, y0, helperEntry(r), corners, Int16(delta + 1))

centralSpan(x0, y0, r) == VSpan(x0, y0 - r, 2 * r + 1, "centre")

(* The vertical spans fillCircle hands to drawFastVLine, in order. *)
fillCircleSpans(x0, y0, r) ==
  <<centralSpan(x0, y0, r)>> \o fillCircleHelper(x0, y0, r, 3, 0)

vspanPixels(s) == drawFastVLine(s.x, s.y, s.h)

fillCirclePixels(spans) ==
  Flatten([i \in 1..Len(spans) |-> vspanPixels(spans[i])])

(* ------------------------------- drawRect ------------------------------ *)
drawRect(x, y, w, h) ==
  drawFastHLine(x, y, w) \o drawFastHLine(x, y + h - 1, w)
    \o drawFastVLine(x, y, h) \o drawFastVLine(x + w - 1, y, h)

(* ---------------------------- drawRoundRect ---------------------------- *)
(* The points of one iteration of drawCircleHelper, c being the locals     *)
(* after the midpoint step.                                                *)
cornerPoints(x0, y0, c, cornername) ==
  (IF Bit(cornername, 4)
     THEN <<writePixel(x0 + c.x, y0 + c.y), writePixel(x0 + c.y, y0 + c.x)>>
     ELSE <<>>)
  \o (IF Bit(cornername, 2)
        THEN <<writePixel(x0 + c.x, y0 - c.y), writePixel(x0 + c.y, y0 - c.x)>>
        ELSE <<>>)
  \o (IF Bit(cornername, 8)
        THEN <<writePixel(x0 - c.y, y0 + c.x), writePixel(x0 - c.x, y0 + c.y)>>
        ELSE <<>>)
  \o (IF Bit(cornername, 1)
        THEN <<writePixel(x0 - c.y, y0 - c.x), writePixel(x0 - c.x, y0 - c.y)>>
        ELSE <<>>)

RECURSIVE cornerLoop(_, _, _, _)
cornerLoop(x0, y0, c, cornername) ==
  IF circleCond(c)
    THEN LET n == circleStep(c)
         IN  cornerPoints(x0, y0, n, cornername)
               \o cornerLoop(x0, y0, n, cornername)
    ELSE <<>>

drawCircleHelper(x0, y0, r, cornername) ==
  cornerLoop(Int16(x0), Int16(y0), circleEntry(Int16(r)), cornername)

(* Faulty variant: the radius is not clamped. *)
clampRadius_none(w, h, r) == r

clampRadius(w, h, r) ==
  LET max_radius == Int16(CDiv(IF w < h THEN w ELSE h, 2))
  IN  IF r > max_radius THEN max_radius ELSE r

drawRoundRect(x, y, w, h, r0) ==
  LET r == clampRadius(w, h, r0)
  IN  drawFastHLine(x + r, y, w - 2 * r)
        \o drawFastHLine(x + r, y + h - 1, w - 2 * r)
        \o drawFastVLine(x, y + r, h - 2 * r)
        \o drawFastVLine(x + w - 1, y + r, h - 2 * r)
        \o drawCircleHelper(x + r, y + r, r, 1)
        \o drawCircleHelper(x + w - r - 1, y + r, r, 2)
        \o drawCircleHelper(x + w - r - 1, y + h - r - 1, r, 4)
        \o drawCircleHelper(x + r, y + h - r - 1, r, 8)

(* ----------------------------- fillTriangle ---------------------------- *)
(* sa and sb are int32_t: with |dx| <= 2^15 and fewer than 2^16 rows no    *)
(* value that is used leaves the 32-bit range, so they are kept unwrapped. *)
(* The three conditional swaps; a vertex is <<x, y>>. *)
triSort(p0, p1, p2) ==
  LET s1 == IF p0[2] > p1[2] THEN <<p1, p0, p2>> ELSE <<p0, p1, p2>>
      s2 == IF s1[2][2] > s1[3][2] THEN <<s1[1], s1[3], s1[2]>> ELSE s1
  IN  IF s2[1][2] > s2[2][2] THEN <<s2[2], s2[1], s2[3]>> ELSE s2

triFlat(v) == v[1][2] = v[3][2]

(* Faulty variant: the third vertex is left out of the min/max. *)
triFlatSpan_two(v) ==
  [a |-> Min(v[1][1], v[2][1]), b |-> Max(v[1][1], v[2][1]),
   y |-> v[1][2], part |-> "flat"]

triFlatSpan(v) ==
  LET x0 == v[1][1]
      x1 == v[2][1]
      x2 == v[3][1]
      a1 == IF x1 < x0 THEN x1 ELSE x0
      b1 == IF x1 < x0 THEN x0 ELSE IF x1 > x0 THEN x1 ELSE x0
      a2 == IF x2 < a1 THEN x2 ELSE a1
      b2 == IF x2 < a1 THEN b1 ELSE IF x2 > b1 THEN x2 ELSE b1
  IN  [a |-> a2, b |-> b2, y |-> v[1][2], part |-> "flat"]

(* Faulty variant: the upper loop always includes row y1. *)
triLast_incl(y1, y2) == y1

triLast(y1, y2) == IF y1 = y2 THEN y1 ELSE Int16(y1 - 1)

triEntry(v) ==
  [x0 |-> v[1][1], y0 |-> v[1][2], x1 |-> v[2][1], y1 |-> v[2][2],
   x2 |-> v[3][1], y2 |-> v[3][2],
   dx01 |-> Int16(v[2][1] - v[1][1]), dy01 |-> Int16(v[2][2] - v[1][2]),
   dx02 |-> Int16(v[3][1] - v[1][1]), dy02 |-> Int16(v[3][2] - v[1][2]),
   dx12 |-> Int16(v[3][1] - v[2][1]), dy12 |-> Int16(v[3][2] - v[2][2]),
   sa |-> 0, sb |-> 0, y |-> v[1][2], last |-> triLast(v[2][2], v[3][2])]

(* ea, eb keep the edge positions as computed, before the a > b swap. *)
triSpan(a, b, y, part) ==
  [a |-> Min(a, b), b |-> Max(a, b), y |-> y, part |-> part,
   ea |-> a, eb |-> b]

triUpperCond(t) == t.y <= t.last

triUpperSpan(t) ==
  triSpan(Int16(t.x0 + CDiv(t.sa, t.dy01)), Int16(t.x0 + CDiv(t.sb, t.dy02)),
          t.y, "upper")

(* Faulty variant: sb is advanced by the short edge's dx. *)
triAdvance_copy(t, dxa) ==
  [t EXCEPT !.sa = t.sa + dxa, !.sb = t.sb + dxa,
            !.y = Int16(t.y + 1)]

triAdvance(t, dxa) ==
  [t EXCEPT !.sa = t.sa + dxa, !.sb = t.sb + t.dx02,
            !.y = Int16(t.y + 1)]

triUpperBody(t) == triAdvance(t, t.dx01)

(* Faulty variant: the short edge is re-seeded from y0 instead of y1. *)
triSeed_y0(t) ==
  [t EXCEPT !.sa = t.dx12 * (t.y - t.y0),
            !.sb = t.dx02 * (t.y - t.y0)]

triSeed(t) ==
  [t EXCEPT !.sa = t.dx12 * (t.y - t.y1),
            !.sb = t.dx02 * (t.y - t.y0)]

triLowerCond(t) == t.y <= t.y2

triLowerSpan(t) ==
  triSpan(Int16(t.x1 + CDiv(t.sa, t.dy12)), Int16(t.x0 + CDiv(t.sb, t.dy02)),
          t.y, "lower")

triLowerBody(t) == triAdvance(t, t.dx12)

RECURSIVE triUpperLoop(_)
triUpperLoop(t) ==
  IF triUpperCond(t)
    THEN LET r == triUpperLoop(triUpperBody(t))
         IN  [spans |-> <<triUpperSpan(t)>> \o r.spans, fin |-> r.fin]
    ELSE [spans |-> <<>>, fin |-> t]

RECURSIVE triLowerLoop(_)
triLowerLoop(t) ==
  IF triLowerCond(t)
    THEN <<triLowerSpan(t)>> \o triLowerLoop(triLowerBody(t))
    ELSE <<>>

(* The horizontal spans fillTriangle hands to drawFastHLine, in order. *)
fillTriangleSpans(x0, y0, x1, y1, x2, y2) ==
  LET v == triSort(<<x0, y0>>, <<x1, y1>>, <<x2, y2>>)
  IN  IF triFlat(v)
        THEN <<triFlatSpan(v)>>
        ELSE LET up == triUpperLoop(triEntry(v))
             IN  up.spans \o triLowerLoop(triSeed(up.fin))

spanPixels(s) == drawFastHLine(s.a, s.y, Int16(s.b - s.a + 1))

fillTrianglePixels(spans) ==
  Flatten([i \in 1..Len(spans) |-> spanPixels(spans[i])])

(* --------------------------- interpolateColor -------------------------- *)
RECURSIVE BitOr(_, _, _)
BitOr(a, b, n) ==
  IF n = 0 THEN 0
  ELSE (IF a % 2 = 1 \/ b % 2 = 1 THEN 1 ELSE 0)
         + 2 * BitOr(a \div 2, b \div 2, n - 1)

red(c) == (c \div 2048) % 32

(* Faulty variant: green unpacked with the 5-bit mask. *)
green_mask5(c) == (c \div 32) % 32

green(c) == (c \div 32) % 64

blue(c) == c % 32

(* (int)((end - start) * t) for t = tq/4, exact in single precision. *)
lerp(start, end, tq) == start + CDiv((end - start) * tq, 4)

(* Faulty variant: green shifted by 6 instead of 5. *)
pack_shift6(r, g, b) ==
  BitOr(BitOr((r * 2048) % 65536, (g * 64) % 65536, 16), b % 65536, 16)

pack(r, g, b) ==
  BitOr(BitOr((r * 2048) % 65536, (g * 32) % 65536, 16), b % 65536, 16)

interpolateColor(colorStart, colorEnd, tq) ==
  pack(lerp(red(colorStart), red(colorEnd), tq),
       lerp(green(colorStart), green(colorEnd), tq),
       lerp(blue(colorStart), blue(colorEnd), tq))

(* ------------------------------- state --------------------------------- *)
VARIABLES
  op,     \* the primitive that was called ("none" between calls)
  args,   \* its arguments
  out,    \* the pixel writes it issued to the sink, in order
  lines,  \* the spans it handed to drawFastHLine, in order
  ret,    \* its return value (0 for the void primitives)
  pc,     \* stepwise execution: the loop the call is in
  wl,     \* stepwise execution: the locals of writeLine
  fr,     \* stepwise execution: the locals of the calling primitive
  todo,   \* stepwise execution: line calls still to make in this iteration
  retpc,  \* stepwise execution: where writeLine returns to
  iter    \* stepwise execution: iterations made so far by the writeLine
          \* loop and by the caller's loop, <<inner, outer>>

vars == <<op, args, out, lines, ret, pc, wl, fr, todo, retpc, iter>>

run == <<pc, wl, fr, todo, retpc, iter>>

Init ==
  /\ op = "none" /\ args = <<>> /\ out = <<>> /\ lines = <<>> /\ ret = 0
  /\ pc = "idle" /\ wl = <<>> /\ fr = <<>> /\ todo = <<>> /\ retpc = "done"
  /\ iter = <<0, 0>>

CallWriteLine ==
  /\ op = "none"
  /\ \E x0 \in Coord, y0 \in Coord, x1 \in Coord, y1 \in Coord :
       /\ op' = "writeLine"
       /\ args' = <<x0, y0, x1, y1>>
       /\ out' = writeLine(x0, y0, x1, y1)
       /\ UNCHANGED <<lines, ret, run>>

CallDrawLine ==
  /\ op = "none"
  /\ \E x0 \in Coord, y0 \in Coord, x1 \in Coord, y1 \in Coord :
       /\ op' = "drawLine"
       /\ args' = <<x0, y0, x1, y1>>
       /\ out' = drawLine(x0, y0, x1, y1)
       /\ UNCHANGED <<lines, ret, run>>

CallDrawCircle ==
  /\ op = "none"
  /\ \E x0 \in Coord, y0 \in Coord, r \in Radius :
       /\ op' = "drawCircle"
       /\ args' = <<x0, y0, r>>
       /\ out' = drawCircle(x0, y0, r)
       /\ UNCHANGED <<lines, ret, run>>

CallFillCircle ==
  /\ op = "none"
  /\ \E x0 \in Coord, y0 \in Coord, r \in Radius :
       /\ op' = "fillCircle"
       /\ args' = <<x0, y0, r>>
       /\ lines' = fillCircleSpans(x0, y0, r)
       /\ out' = fillCirclePixels(lines')
       /\ ret' = 0
       /\ UNCHANGED run

CallDrawRoundRect ==
  /\ op = "none"
  /\ \E o \in RoundOrigin, w \in RoundSize, h \in RoundSize, r \in Radius :
       /\ op' = "drawRoundRect"
       /\ args' = <<o[1], o[2], w, h, r>>
       /\ out' = drawRoundRect(o[1], o[2], w, h, r)
       /\ UNCHANGED <<lines, ret, run>>

CallDrawRect ==
  /\ op = "none"
  /\ \E x \in Coord, y \in Coord, w \in Size, h \in Size :
       /\ op' = "drawRect"
       /\ args' = <<x, y, w, h>>
       /\ out' = drawRect(x, y, w, h)
       /\ UNCHANGED <<lines, ret, run>>

CallFillTriangle ==
  /\ op = "none"
  /\ \E v \in Triangles :
       /\ op' = "fillTriangle"
       /\ args' = v
       /\ lines' = fillTriangleSpans(v[1], v[2], v[3], v[4], v[5], v[6])
       /\ out' = fillTrianglePixels(lines')
       /\ ret' = 0
       /\ UNCHANGED run

CallInterpolateColor ==
  /\ op = "none"
  /\ \E colorStart \in Colors, colorEnd \in Colors, tq \in TQuarters :
       /\ op' = "interpolateColor"
       /\ args' = <<colorStart, colorEnd, tq>>
       /\ ret' = interpolateColor(colorStart, colorEnd, tq)
       /\ UNCHANGED <<out, lines, run>>

Return ==
  /\ op # "none"
  /\ op' = "none" /\ args' = <<>> /\ out' = <<>> /\ lines' = <<>> /\ ret' = 0
  /\ UNCHANGED run

Next ==
  \/ CallWriteLine \/ CallDrawLine \/ CallDrawCircle \/ CallDrawRect
  \/ CallFillTriangle \/ CallInterpolateColor \/ CallFillCircle
  \/ CallDrawRoundRect
  \/ Return

Spec == Init /\ [][Next]_vars

(* ------------------------- stepwise execution -------------------------- *)
(* The same primitives executed one loop iteration per step, on arguments  *)
(* at the top of the int16_t range.  Only the locals are kept, not the     *)
(* pixels written, so a loop that never exits is a cycle of the state      *)
(* graph.                                                                  *)
RunLines ==
  { <<x0, 0, x1, y1>> : x0 \in {32766, 32767}, x1 \in {32766, 32767},
                        y1 \in {0, 1} }

RunCircles == { <<0, 0, 0>>, <<0, 0, 2>>, <<0, 32766, 1>>, <<5, 5, 32767>> }

RunTriangles ==
  { <<0, 0, 2, 1, 1, 2>>, <<0, 0, 32767, 0, 0, 1>>,
    <<0, 32766, 0, 32767, 0, 32767>>, <<0, 32765, 0, 32766, 0, 32767>>,
    <<3, 32767, 1, 32767, 2, 32767>>,
    <<0, -32768, 0, -32768, 0, -32767>> }

(* An int16_t loop counter has 2^16 values: a counting loop that has made  *)
(* more iterations than that has seen every value pass its exit test, and  *)
(* never exits.  The iteration counts are observed up to that number.      *)
MaxIter == 65536

(* Enter writeLine on the first pending line call <<x0, y0, x1, y1>>. *)
CallLines(calls, back) ==
  IF calls = <<>>
    THEN /\ pc' = back
         /\ UNCHANGED <<wl, todo, retpc>>
    ELSE /\ pc' = "writeLine"
         /\ wl' = writeLineEntry(Int16(calls[1][1]), Int16(calls[1][2]),
                                 Int16(calls[1][3]), Int16(calls[1][4]))
         /\ todo' = Tail(calls)
         /\ retpc' = back

HLineCall(s) == drawFastHLineCall(s.a, s.y, Int16(s.b - s.a + 1))

VLineCall(s) == drawFastVLineCall(s.x, s.y, s.h)

StartWriteLine ==
  /\ pc = "idle"
  /\ \E a \in RunLines :
       /\ op' = "writeLine" /\ args' = a
       /\ fr' = <<>>
       /\ CallLines(<<a>>, "done")
  /\ UNCHANGED <<out, lines, ret, iter>>

StartDrawLine ==
  /\ pc = "idle"
  /\ \E a \in RunLines :
       /\ op' = "drawLine" /\ args' = a
       /\ fr' = <<>>
       /\ CallLines(<<drawLineCall(a[1], a[2], a[3], a[4])>>, "done")
  /\ UNCHANGED <<out, lines, ret, iter>>

LineStep ==
  /\ pc = "writeLine"
  /\ writeLineCond(wl)
  /\ iter[1] <= MaxIter
  /\ wl' = writeLineBody(wl)
  /\ iter' = <<iter[1] + 1, iter[2]>>
  /\ UNCHANGED <<op, args, out, lines, ret, pc, fr, todo, retpc>>

LineReturn ==
  /\ pc = "writeLine"
  /\ ~writeLineCond(wl)
  /\ CallLines(todo, retpc)
  /\ iter' = <<0, iter[2]>>
  /\ UNCHANGED <<op, args, out, lines, ret, fr>>

StartDrawCircle ==
  /\ pc = "idle"
  /\ \E a \in RunCircles :
       /\ op' = "drawCircle" /\ args' = a
       /\ fr' = circleEntry(a[3])
  /\ pc' = "drawCircle"
  /\ UNCHANGED <<out, lines, ret, wl, todo, retpc, iter>>

CircleStep ==
  /\ pc = "drawCircle"
  /\ circleCond(fr)
  /\ iter[2] <= MaxIter
  /\ fr' = circleStep(fr)
  /\ iter' = <<0, iter[2] + 1>>
  /\ UNCHANGED <<op, args, out, lines, ret, pc, wl, todo, retpc>>

CircleReturn ==
  /\ pc = "drawCircle"
  /\ ~circleCond(fr)
  /\ pc' = "done"
  /\ UNCHANGED <<op, args, out, lines, ret, wl, fr, todo, retpc, iter>>

StartFillCircle ==
  /\ pc = "idle"
  /\ \E a \in RunCircles :
       /\ op' = "fillCircle" /\ args' = a
       /\ fr' = helperEntry(a[3])
       /\ CallLines(<<VLineCall(centralSpan(a[1], a[2], a[3]))>>, "fillCircleHelper")
  /\ UNCHANGED <<out, lines, ret, iter>>

HelperStep ==
  /\ pc = "fillCircleHelper"
  /\ helperCond(fr)
  /\ iter[2] <= MaxIter
  /\ fr' = helperBody(fr)
  /\ LET spans == helperSpans(args[1], args[2], fr, 3, Int16(0 + 1))
     IN  CallLines([i \in 1..Len(spans) |-> VLineCall(spans[i])],
                   "fillCircleHelper")
  /\ iter' = <<0, iter[2] + 1>>
  /\ UNCHANGED <<op, args, out, lines, ret>>

HelperReturn ==
  /\ pc = "fillCircleHelper"
  /\ ~helperCond(fr)
  /\ pc' = "done"
  /\ UNCHANGED <<op, args, out, lines, ret, wl, fr, todo, retpc, iter>>

StartFillTriangle ==
  /\ pc = "idle"
  /\ \E a \in RunTriangles :
       LET v == triSort(<<a[1], a[2]>>, <<a[3], a[4]>>, <<a[5], a[6]>>)
       IN  /\ op' = "fillTriangle" /\ args' = a
           /\ IF triFlat(v)
                THEN /\ fr' = <<>>
                     /\ CallLines(<<HLineCall(triFlatSpan(v))>>, "done")
                ELSE /\ fr' = triEntry(v)
                     /\ pc' = "triUpper"
                     /\ UNCHANGED <<wl, todo, retpc>>
  /\ UNCHANGED <<out, lines, ret, iter>>

(* The divisors of the iteration the loop at pc is about to execute. *)
triUpperDivisors(t) == {t.dy01, t.dy02}

triLowerDivisors(t) == {t.dy12, t.dy02}

(* An iteration that divides by zero: the behaviour is undefined from     *)
(* there on and the execution is not followed further.                     *)
TriDivZero ==
  /\ \/ pc = "triUpper" /\ triUpperCond(fr) /\ 0 \in triUpperDivisors(fr)
     \/ pc = "triLower" /\ triLowerCond(fr) /\ 0 \in triLowerDivisors(fr)
  /\ pc' = "undefined"
  /\ UNCHANGED <<op, args, out, lines, ret, wl, fr, todo, retpc, iter>>

TriUpperStep ==
  /\ pc = "triUpper"
  /\ triUpperCond(fr)
  /\ 0 \notin triUpperDivisors(fr)
  /\ iter[2] <= MaxIter
  /\ fr' = triUpperBody(fr)
  /\ CallLines(<<HLineCall(triUpperSpan(fr))>>, "triUpper")
  /\ iter' = <<0, iter[2] + 1>>
  /\ UNCHANGED <<op, args, out, lines, ret>>

TriSeed ==
  /\ pc = "triUpper"
  /\ ~triUpperCond(fr)
  /\ fr' = triSeed(fr)
  /\ pc' = "triLower"
  /\ iter' = <<0, 0>>
  /\ UNCHANGED <<op, args, out, lines, ret, wl, todo, retpc>>

TriLowerStep ==
  /\ pc = "triLower"
  /\ triLowerCond(fr)
  /\ 0 \notin triLowerDivisors(fr)
  /\ iter[2] <= MaxIter
  /\ fr' = triLowerBody(fr)
  /\ CallLines(<<HLineCall(triLowerSpan(fr))>>, "triLower")
  /\ iter' = <<0, iter[2] + 1>>
  /\ UNCHANGED <<op, args, out, lines, ret>>

TriReturn ==
  /\ pc = "triLower"
  /\ ~triLowerCond(fr)
  /\ pc' = "done"
  /\ UNCHANGED <<op, args, out, lines, ret, wl, fr, todo, retpc, iter>>

NextRun ==
  \/ StartWriteLine \/ StartDrawLine \/ LineStep \/ LineReturn
  \/ StartDrawCircle \/ CircleStep \/ CircleReturn
  \/ StartFillCircle \/ HelperStep \/ HelperReturn
  \/ StartFillTriangle \/ TriUpperStep \/ TriSeed \/ TriLowerStep \/ TriReturn
  \/ TriDivZero

(* The program is one thread that keeps executing: a step that can be      *)
(* taken is taken.                                                         *)
SpecRun == Init /\ [][NextRun]_vars

(* ----------------------------- properties ------------------------------ *)
PixelSet(s) == {s[i] : i \in 1..Len(s)}

(* C1: writeLine emits exactly max(|x1-x0|,|y1-y0|)+1 pixels, one per      *)
(* integer position on the major axis; from (0,0) to (dx,0), dx >= 0, it   *)
(* emits exactly (0,0)..(dx,0).                                            *)
C1_LineLength ==
  op = "writeLine" =>
    LET x0 == args[1]
        y0 == args[2]
        x1 == args[3]
        y1 == args[4]
        n  == Max(Abs(x1 - x0), Abs(y1 - y0)) + 1
        major == IF Steep(x0, y0, x1, y1) THEN 2 ELSE 1
        lo == IF major = 2 THEN Min(y0, y1) ELSE Min(x0, x1)
    IN  /\ Len(out) = n
        /\ \A i \in 1..Len(out) : out[i][major] = lo + i - 1
        /\ (x0 = 0 /\ y0 = 0 /\ y1 = 0 /\ x1 >= 0)
             => out = [i \in 1..(x1 + 1) |-> <<i - 1, 0>>]

C1_Witness ==
  /\ op = "writeLine"
  /\ args = <<0, 0, 3, 0>>
  /\ out = << <<0, 0>>, <<1, 0>>, <<2, 0>>, <<3, 0>> >>

(* C2: drawLine(p0,p1) and drawLine(p1,p0) emit the same set of pixels, in *)
(* each of the three dispatch branches.                                    *)
C2_Reversible ==
  op = "drawLine" =>
    PixelSet(out) = PixelSet(drawLine(args[3], args[4], args[1], args[2]))

C2_Witness ==
  /\ op = "drawLine"
  /\ args = <<3, 1, -2, -1>>
  /\ Len(out) = 6
  /\ PixelSet(out) = PixelSet(drawLine(-2, -1, 3, 1))

(* C3: the pixels of writeLine form an 8-connected path: both endpoints    *)
(* are emitted and consecutive pixels differ by exactly 1 on the major     *)
(* axis and by at most 1 on the minor axis.                                *)
C3_Connected ==
  op = "writeLine" =>
    LET major == IF Steep(args[1], args[2], args[3], args[4]) THEN 2 ELSE 1
        minor == 3 - major
    IN  /\ <<args[1], args[2]>> \in PixelSet(out)
        /\ <<args[3], args[4]>> \in PixelSet(out)
        /\ \A i \in 1..(Len(out) - 1) :
             /\ Abs(out[i + 1][major] - out[i][major]) = 1
             /\ Abs(out[i + 1][minor] - out[i][minor]) <= 1

C3_Witness ==
  /\ op = "writeLine"
  /\ args = <<2, -3, 0, 3>>
  /\ out[1] = <<2, -3>>
  /\ out[Len(out)] = <<0, 3>>
  /\ \E i \in 1..(Len(out) - 1) : out[i + 1][1] # out[i][1]

(* C4: drawRect with w <= 0 or h <= 0 issues no pixel write.               *)
C4_EmptyRect ==
  (op = "drawRect" /\ (args[3] <= 0 \/ args[4] <= 0)) => out = <<>>

(* C5: every call of writeLine, drawLine, drawCircle, fillCircle and       *)
(* fillTriangle returns after finitely many pixel writes, for all int16_t  *)
(* arguments.                                                              *)
(* Stated as a bound a finite run refutes: no loop of a call makes more    *)
(* iterations than its int16_t counter has values.                         *)
C5_LoopsExit == iter[1] <= MaxIter /\ iter[2] <= MaxIter

(* C6: the pixels of drawCircle, r >= 0, are symmetric about the centre    *)
(* under both axis reflections and the diagonal swap of the offsets.       *)
C6_CircleSymmetry ==
  (op = "drawCircle" /\ args[3] >= 0) =>
    \A p \in PixelSet(out) :
      LET dx == p[1] - args[1]
          dy == p[2] - args[2]
      IN  /\ <<args[1] + dx, args[2] - dy>> \in PixelSet(out)
          /\ <<args[1] - dx, args[2] + dy>> \in PixelSet(out)
          /\ <<args[1] + dy, args[2] + dx>> \in PixelSet(out)

C6_Witness ==
  /\ op = "drawCircle"
  /\ args = <<1, -2, 5>>
  /\ <<1 + 3, -2 + 4>> \in PixelSet(out)
  /\ <<1 - 4, -2 - 3>> \in PixelSet(out)

TriYs == {args[2], args[4], args[6]}

TriXs == {args[1], args[3], args[5]}

SetMin(S) == CHOOSE m \in S : \A e \in S : m <= e

SetMax(S) == CHOOSE m \in S : \A e \in S : m >= e

TriYMid ==
  CHOOSE m \in TriYs :
    \E i, j, k \in {2, 4, 6} :
      /\ {i, j, k} = {2, 4, 6}
      /\ args[i] <= args[j] /\ args[j] <= args[k] /\ m = args[j]

(* C7: for a triangle whose y's are not all equal, fillTriangle emits      *)
(* exactly one span per row from the smallest to the largest vertex y, in  *)
(* increasing order; the row of the middle vertex comes from the upper     *)
(* loop exactly when y1 = y2 (sorted), else from the lower loop.           *)
C7_OneSpanPerRow ==
  (op = "fillTriangle" /\ Cardinality(TriYs) > 1) =>
    /\ Len(lines) = SetMax(TriYs) - SetMin(TriYs) + 1
    /\ \A i \in 1..Len(lines) :
         /\ lines[i].y = SetMin(TriYs) + i - 1
         /\ lines[i].part \in {"upper", "lower"}
         /\ lines[i].y < TriYMid => lines[i].part = "upper"
         /\ lines[i].y > TriYMid => lines[i].part = "lower"
         /\ lines[i].y = TriYMid =>
              (lines[i].part = "upper" <=> TriYMid = SetMax(TriYs))

C7_Witness ==
  /\ op = "fillTriangle"
  /\ args = <<0, 0, 3, 1, 1, 3>>
  /\ Len(lines) = 4
  /\ lines[1].part = "upper"
  /\ lines[2].part = "lower" /\ lines[2].y = 1

(* C8: when the three y's are equal, fillTriangle emits exactly one span,  *)
(* on that row, from the least to the greatest x, in every vertex order,   *)
(* and enters no scanline loop.                                            *)
C8_FlatSpan ==
  (op = "fillTriangle" /\ Cardinality(TriYs) = 1) =>
    /\ lines = << [a |-> SetMin(TriXs), b |-> SetMax(TriXs),
                   y |-> args[2], part |-> "flat"] >>
    /\ out = [i \in 1..(SetMax(TriXs) - SetMin(TriXs) + 1) |->
                <<SetMin(TriXs) + i - 1, args[2]>>]

C8_Witness ==
  /\ op = "fillTriangle"
  /\ args = <<5, 0, 10, 0, 0, 0>>
  /\ lines = << [a |-> 0, b |-> 10, y |-> 0, part |-> "flat"] >>
  /\ Len(out) = 11

(* C9: every span [a,b] fillTriangle emits on a row y lies inside the      *)
(* bounding box of the three vertices.                                     *)
C9_SpanInBox ==
  op = "fillTriangle" =>
    \A i \in 1..Len(lines) :
      /\ SetMin(TriXs) <= lines[i].a
      /\ lines[i].a <= lines[i].b
      /\ lines[i].b <= SetMax(TriXs)
      /\ SetMin(TriYs) <= lines[i].y
      /\ lines[i].y <= SetMax(TriYs)

C9_Witness ==
  /\ op = "fillTriangle"
  /\ args = <<0, 0, 10, 0, 5, 10>>
  /\ Len(lines) = 11
  /\ lines[1].a = 0 /\ lines[1].b = 10
  /\ lines[11].a = 5 /\ lines[11].b = 5

(* C10: interpolateColor(start, end, 0) = start and                        *)
(* interpolateColor(start, end, 1) = end.                                  *)
C10_Boundary ==
  op = "interpolateColor" =>
    /\ args[3] = 0 => ret = args[1]
    /\ args[3] = 4 => ret = args[2]

C10_Witness ==
  /\ op = "interpolateColor"
  /\ args = <<21 * 2048 + 63 * 32 + 0, 31 * 2048 + 0 * 32 + 21, 4>>
  /\ ret = 31 * 2048 + 21

(* C11: interpolateColor(c, c, t) = c for every colour c and every t,      *)
(* inside or outside [0,1].                                                *)
C11_EqualEnds ==
  (op = "interpolateColor" /\ args[1] = args[2]) => ret = args[1]

C11_Witness ==
  /\ op = "interpolateColor"
  /\ args = <<21 * 2048 + 42 * 32 + 31, 21 * 2048 + 42 * 32 + 31, -7>>
  /\ ret = 21 * 2048 + 42 * 32 + 31

(* C12: drawRoundRect with any radius greater than min(w,h)/2 issues the   *)
(* same sequence of pixel writes as with radius min(w,h)/2.                *)
C12_ClampIdempotent ==
  op = "drawRoundRect" =>
    LET half == CDiv(Min(args[3], args[4]), 2)
    IN  args[5] > half =>
          out = drawRoundRect(args[1], args[2], args[3], args[4], half)

C12_Witness ==
  /\ op = "drawRoundRect"
  /\ args = <<0, 0, 8, 6, 5>>
  /\ out = drawRoundRect(0, 0, 8, 6, 3)
  /\ <<3, 0>> \in PixelSet(out) /\ <<4, 0>> \in PixelSet(out)
  /\ <<0, 2>> \in PixelSet(out) /\ <<0, 0>> \notin PixelSet(out)

(* C13: fillCircle with r >= 0 draws no column twice: the central span and *)
(* the "x" and "previous y" spans of fillCircleHelper lie on pairwise      *)
(* distinct columns, and no pixel is written more than once.               *)
C13_DistinctColumns ==
  (op = "fillCircle" /\ args[3] >= 0) =>
    /\ \A i, j \in 1..Len(lines) : i # j => lines[i].x # lines[j].x
    /\ \A i, j \in 1..Len(out) : i # j => out[i] # out[j]

C13_Witness ==
  /\ op = "fillCircle"
  /\ args = <<1, -1, 5>>
  /\ Len(lines) = 11
  /\ \E i \in 1..Len(lines) : lines[i].kind = "x"
  /\ \E i \in 1..Len(lines) : lines[i].kind = "py"

TriSorted == triSort(<<args[1], args[2]>>, <<args[3], args[4]>>, <<args[5], args[6]>>)

(* C14: on every row fillTriangle emits, the accumulated edge positions    *)
(* equal the longhand values with C division: upper a = x0 +               *)
(* (x1-x0)*(y-y0)/(y1-y0), lower a = x1 + (x2-x1)*(y-y1)/(y2-y1), both     *)
(* b = x0 + (x2-x0)*(y-y0)/(y2-y0); and sb as re-seeded before the lower   *)
(* loop equals sb as accumulated by the upper loop.                        *)
C14_Longhand ==
  (op = "fillTriangle" /\ Cardinality(TriYs) > 1) =>
    LET x0 == TriSorted[1][1]
        y0 == TriSorted[1][2]
        x1 == TriSorted[2][1]
        y1 == TriSorted[2][2]
        x2 == TriSorted[3][1]
        y2 == TriSorted[3][2]
        up == triUpperLoop(triEntry(TriSorted))
    IN  /\ \A i \in 1..Len(lines) :
             LET y == lines[i].y
             IN  /\ lines[i].eb = x0 + CDiv((x2 - x0) * (y - y0), y2 - y0)
                 /\ lines[i].part = "upper" =>
                      lines[i].ea = x0 + CDiv((x1 - x0) * (y - y0), y1 - y0)
                 /\ lines[i].part = "lower" =>
                      lines[i].ea = x1 + CDiv((x2 - x1) * (y - y1), y2 - y1)
        /\ triSeed(up.fin).sb = up.fin.sb

C14_Witness ==
  /\ op = "fillTriangle"
  /\ args = <<-4, 7, 9, -6, 2, 3>>
  /\ Len(lines) = 14
  /\ lines[9].part = "upper" /\ lines[10].part = "lower"
  /\ lines[10].y = 3 /\ lines[10].ea = 2 /\ lines[10].eb = 0

(* C15: fillTriangle never divides by zero: whenever an iteration of the   *)
(* upper loop (dividing by dy01 and dy02) or of the lower loop (dividing   *)
(* by dy12 and dy02) is executed, its divisors are non-zero.               *)
C15_NoDivZero ==
  /\ (pc = "triUpper" /\ triUpperCond(fr)) => 0 \notin triUpperDivisors(fr)
  /\ (pc = "triLower" /\ triLowerCond(fr)) => 0 \notin triLowerDivisors(fr)
====
